---------------------------- MODULE Spec2Model ----------------------------
(***************************************************************************)
(* A model of pytypedecl's booleq.py: the boolean term algebra (TRUE,      *)
(* FALSE, Eq, And, Or), simplify(), extract_pivots() and the Solver that   *)
(* iterates them to a fixpoint.                                            *)
(*                                                                         *)
(* Terms are records.  And/Or define __eq__ but no __hash__                *)
(* (booleq.py:203, 251), so inside a frozenset or as a dict key an And/Or  *)
(* object is found by identity; Eq hashes by (left, right) and TRUE/FALSE  *)
(* are singletons.  The field "id" is the identity of an And/Or object:    *)
(* two records with the same id are the same object, and a frozenset of    *)
(* terms is the TLA+ set of their records.                                 *)
(***************************************************************************)
EXTENDS Naturals, Sequences, FiniteSets, TLC

(***************************************************************************)
(* Labels (Python str), in ascending order of Python's string comparison.  *)
(***************************************************************************)
Labels == <<"1", "2", "t", "v1", "v2", "v3", "x", "y">>

LabelSet == { Labels[i] : i \in DOMAIN Labels }

\* The position of each label in the ascending order
Ranks == [l \in LabelSet |-> CHOOSE i \in DOMAIN Labels : Labels[i] = l]

\* Python's a < b on labels is Rank(a) < Rank(b)
Rank(l) == Ranks[l]

-----------------------------------------------------------------------------
(***************************************************************************)
(* The term algebra                                                        *)
(***************************************************************************)
NoId == << >>

TrueValue  == [kind |-> "TRUE",  left |-> "", right |-> "", exprs |-> {}, id |-> NoId]

FalseValue == [kind |-> "FALSE", left |-> "", right |-> "", exprs |-> {}, id |-> NoId]

\* Mutant of sorted: the operands are left in the order given
unsorted(left, right) == <<left, right>>

\* sorted((left, right)): the two labels in ascending order
sorted(left, right) ==
  IF Rank(left) <= Rank(right) THEN <<left, right>> ELSE <<right, left>>

\* reversed(seq)
reversed(s) == [i \in DOMAIN s |-> s[Len(s) + 1 - i]]

\* Eq.__new__
Eq(left, right) ==
  IF left = right
    THEN TrueValue
    ELSE LET lr == reversed(sorted(left, right))
         IN [kind |-> "Eq", left |-> lr[1], right |-> lr[2],
             exprs |-> {}, id |-> NoId]

\* Eq.__hash__ / object.__hash__: what a set or a dict finds a term by
Hash(t) ==
  CASE t.kind = "Eq" -> <<Rank(t.left), Rank(t.right)>>
    [] t.kind \in {"And", "Or"} -> <<0>> \o t.id
    [] OTHER -> IF t.kind = "TRUE" THEN <<0, 1>> ELSE <<0, 0>>

\* Eq.__eq__, And.__eq__, Or.__eq__ (the constants compare by identity)
TermEq(a, b) ==
  CASE a.kind = "Eq" -> b.kind = "Eq" /\ a.left = b.left /\ a.right = b.right
    [] a.kind \in {"And", "Or"} -> a.kind = b.kind /\ a.exprs = b.exprs
    [] OTHER -> a = b

\* Mutant of And: the And terms among exprs are not flattened
And_unflattened(id, exprs) ==
  LET expr_set == exprs \ {TrueValue}
  IN  IF FalseValue \in expr_set THEN FalseValue
      ELSE IF Cardinality(expr_set) > 1
        THEN [kind |-> "And", left |-> "", right |-> "",
              exprs |-> expr_set, id |-> id]
      ELSE IF expr_set # {} THEN CHOOSE expr \in expr_set : TRUE
      ELSE TrueValue

\* Mutant of And: an object is created for three expressions or more
And_needs_three(id, exprs) ==
  LET flattened == UNION { IF e.kind = "And" THEN e.exprs ELSE {e} : e \in exprs }
      expr_set  == flattened \ {TrueValue}
  IN  IF FalseValue \in expr_set THEN FalseValue
      ELSE IF Cardinality(expr_set) > 2
        THEN [kind |-> "And", left |-> "", right |-> "",
              exprs |-> expr_set, id |-> id]
      ELSE IF expr_set # {} THEN CHOOSE expr \in expr_set : TRUE
      ELSE TrueValue

\* And.__new__: id is the identity of the object it creates, if it creates one
And(id, exprs) ==
  LET flattened == UNION { IF e.kind = "And" THEN e.exprs ELSE {e} : e \in exprs }
      expr_set  == flattened \ {TrueValue}
  IN  IF FalseValue \in expr_set THEN FalseValue
      ELSE IF Cardinality(expr_set) > 1
        THEN [kind |-> "And", left |-> "", right |-> "",
              exprs |-> expr_set, id |-> id]
      ELSE IF expr_set # {} THEN CHOOSE expr \in expr_set : TRUE
      ELSE TrueValue

\* Mutant of Or: FALSE is kept among the expressions
Or_keeps_false(id, exprs) ==
  LET expr_set == UNION { IF e.kind = "Or" THEN e.exprs ELSE {e} : e \in exprs }
  IN  IF TrueValue \in expr_set THEN TrueValue
      ELSE IF Cardinality(expr_set) > 1
        THEN [kind |-> "Or", left |-> "", right |-> "",
              exprs |-> expr_set, id |-> id]
      ELSE IF expr_set # {} THEN CHOOSE expr \in expr_set : TRUE
      ELSE FalseValue

\* Or.__new__
Or(id, exprs) ==
  LET flattened == UNION { IF e.kind = "Or" THEN e.exprs ELSE {e} : e \in exprs }
      expr_set  == flattened \ {FalseValue}
  IN  IF TrueValue \in expr_set THEN TrueValue
      ELSE IF Cardinality(expr_set) > 1
        THEN [kind |-> "Or", left |-> "", right |-> "",
              exprs |-> expr_set, id |-> id]
      ELSE IF expr_set # {} THEN CHOOSE expr \in expr_set : TRUE
      ELSE FalseValue

-----------------------------------------------------------------------------
(***************************************************************************)
(* simplify                                                                *)
(***************************************************************************)
\* assignments.get(label, ()): a label that is no key has no candidates
Get(assignments, label) ==
  IF label \in DOMAIN assignments THEN assignments[label] ELSE {}

\* The objects one simplify() call creates are named by the path from the
\* term it was called on: a child is told apart from its siblings by its hash.
ChildPath(path, child) == path \o Hash(child)

\* Mutant of EqSimplify: the equality is returned as it is
EqSimplifyKeeps(t, assign, path) == t

\* Eq.simplify; path names the objects created
EqSimplify(t, assign, path) ==
  IF \/ t.right \in Get(assign, t.left)
     \/ t.left \in Get(assign, t.right)
    THEN t
    ELSE LET intersection == Get(assign, t.left) \cap Get(assign, t.right)
         IN  Or(path, { And(path \o <<Rank(i)>>, {Eq(t.left, i), Eq(i, t.right)})
                        : i \in intersection })

RECURSIVE simplify(_, _, _)
\* TrueValue.simplify, FalseValue.simplify, And.simplify, Or.simplify
simplify(t, assignments, path) ==
  CASE t.kind = "Eq" -> EqSimplify(t, assignments, path)
    [] t.kind = "And" ->
         And(path, { simplify(c, assignments, ChildPath(path, c)) : c \in t.exprs })
    [] t.kind = "Or" ->
         Or(path, { simplify(c, assignments, ChildPath(path, c)) : c \in t.exprs })
    [] OTHER -> t

-----------------------------------------------------------------------------
(***************************************************************************)
(* extract_pivots                                                          *)
(***************************************************************************)
\* "for expr in self.exprs": the members of a frozenset in the order the
\* iteration yields them
RECURSIVE iter(_)
iter(S) ==
  IF S = {} THEN << >>
  ELSE LET e == CHOOSE x \in S : TRUE IN <<e>> \o iter(S \ {e})

EmptyPivots == [name \in {} |-> {}]

\* Mutant of AndMerge: a name that recurs takes the later child's values
AndMergeLast(pivots, expr_pivots) ==
  [name \in DOMAIN pivots \cup DOMAIN expr_pivots |->
     IF name \in DOMAIN expr_pivots THEN expr_pivots[name] ELSE pivots[name]]

\* The inner loop of And.extract_pivots: fold one child's pivots into pivots
AndMerge(pivots, expr_pivots) ==
  [name \in DOMAIN pivots \cup DOMAIN expr_pivots |->
     IF name \in DOMAIN expr_pivots
       THEN IF name \in DOMAIN pivots
              THEN pivots[name] \cap expr_pivots[name]
              ELSE expr_pivots[name]
       ELSE pivots[name]]

RECURSIVE extract_pivots(_)
RECURSIVE AndPivots(_, _)
\* The outer loop of And.extract_pivots over the children still to visit
AndPivots(todo, pivots) ==
  IF todo = << >> THEN pivots
  ELSE AndPivots(Tail(todo), AndMerge(pivots, extract_pivots(Head(todo))))

RECURSIVE KeysInAll(_, _)
\* Or.extract_pivots: the names that appear in all of pivots_list
KeysInAll(pivots_list, intersection) ==
  IF pivots_list = << >> THEN intersection
  ELSE KeysInAll(Tail(pivots_list), intersection \cap DOMAIN Head(pivots_list))

\* Mutant of OrPivots: the candidate sets are intersected, as And does
OrPivotsMeet(pivots_list) ==
  LET intersection == KeysInAll(Tail(pivots_list), DOMAIN pivots_list[1])
  IN  [pivot \in intersection |->
         { v \in pivots_list[1][pivot] :
             \A i \in DOMAIN pivots_list : v \in pivots_list[i][pivot] }]

\* Or.extract_pivots, given the children's pivots
OrPivots(pivots_list) ==
  LET intersection == KeysInAll(Tail(pivots_list), DOMAIN pivots_list[1])
  IN  [pivot \in intersection |->
         UNION { pivots_list[i][pivot] : i \in DOMAIN pivots_list }]

\* Mutant of EqPivots: each side is bound to itself
EqPivotsSelf(t) == [name \in {t.left, t.right} |-> {name}]

\* Eq.extract_pivots
EqPivots(t) ==
  [name \in {t.left, t.right} |-> IF name = t.left THEN {t.right} ELSE {t.left}]

\* BooleanTerm.extract_pivots and its overrides
extract_pivots(t) ==
  CASE t.kind = "Eq" -> EqPivots(t)
    [] t.kind = "And" -> AndPivots(iter(t.exprs), EmptyPivots)
    [] t.kind = "Or" ->
         LET children == iter(t.exprs)
         IN  OrPivots([i \in DOMAIN children |-> extract_pivots(children[i])])
    [] OTHER -> EmptyPivots

-----------------------------------------------------------------------------
(***************************************************************************)
(* Bounds of the model, and the arguments the calls are made with          *)
(***************************************************************************)
\* The longest list of variables, and of values, that is registered
MaxVariables == 2

MaxValues == 2

\* implies() is called while the table has fewer entries than this
MaxImplications == 2

\* Arguments of register_variable and register_value
VarInputs == {"x", "y"}

ValueInputs == {"1", "2"}

\* Terms the caller builds; a caller's And/Or object has the id <<k>>, k > 0
AndObject == And(<<1>>, {Eq("y", "1"), Eq("x", "1")})

OrObject == Or(<<2>>, {Eq("x", "1"), Eq("y", "2")})

\* Arguments of implies: the second implication of an equality is given with
\* the operands swapped, and Eq(x, x) is the constant TRUE
ImplyInputs ==
  { <<Eq("x", "1"), Eq("y", "2")>>, <<Eq("1", "x"), AndObject>>,
    <<Eq("x", "2"), FalseValue>>,   <<Eq("y", "1"), Eq("x", "y")>>,
    <<Eq("y", "2"), Eq("x", "2")>>, <<Eq("2", "y"), OrObject>>,
    <<Eq("x", "x"), TrueValue>>,    <<OrObject, TrueValue>>,
    <<FalseValue, TrueValue>> }

\* Arguments of always_true
TruthInputs == {Eq("x", "1"), Eq("x", "y"), TrueValue, FalseValue}

\* The example of BooleanTerm.extract_pivots' docstring:
\* t = v1 | (t = v2 & (t = v2 | t = v3))
ExampleVariables == {"t"}

ExampleValues == {"v1", "v2", "v3"}

ExampleImplications ==
  { <<Eq("t", "v1"), TrueValue>>, <<Eq("t", "v2"), TrueValue>>,
    <<Eq("t", "v3"), FalseValue>> }

ExampleTruth ==
  Or(<<3>>, {Eq("t", "v1"),
             And(<<4>>, {Eq("t", "v2"),
                         Or(<<5>>, {Eq("t", "v2"), Eq("t", "v3")})})})

-----------------------------------------------------------------------------
(***************************************************************************)
(* The Solver                                                              *)
(***************************************************************************)
VARIABLES
  variables,          \* self.variables: a list of labels
  values,             \* self.values: a list of labels
  implications,       \* self.implications: a dict from terms to terms
  ground_truth,       \* self.ground_truth: a term
  raised,             \* the check of the last call that raised AssertionError, or ""
  pc,                 \* where solve() is: "idle" outside a call
  assignments,        \* solve(): the dict from variables to candidate sets
  something_changed,  \* solve(): the flag of the while loop
  var_index,          \* solve(): the position of "for var in self.variables"
  pending,            \* solve(): the values of assignments[var].copy() not yet visited
  terms,              \* solve(): the implications appended to terms
  passes,             \* history: the number of passes the while loop has begun
  pass_start,         \* history: assignments when the pass under way began
  result,             \* <<the assignment solve() last returned>>, << >> before
  held,               \* the terms a caller of the term classes has built and kept
  call,               \* the caller's last call: [op, args, ret]
  objects             \* the number of And/Or objects the caller's calls created

vars == <<variables, values, implications, ground_truth, raised, pc, assignments,
          something_changed, var_index, pending, terms, passes, pass_start, result,
          held, call, objects>>

\* The variables of a caller that builds terms
term_vars == <<held, call, objects>>

\* The variables of the Solver and of a call of solve()
solver_vars == <<variables, values, implications, ground_truth, raised, pc,
                 assignments, something_changed, var_index, pending, terms,
                 passes, pass_start, result>>

\* Before the caller's first call
NoCall == [op |-> "", args |-> << >>, ret |-> << >>]

\* No AssertionError
NotRaised == ""

\* No call of solve() is under way: the Solver is single-threaded, so its
\* other methods are called only then
NotSolving == pc \in {"idle", "done"}

\* A call ends and returns ret (<< >> for None); the locals of the last
\* solve() are gone
Returned(ret) ==
  /\ pc' = IF ret = << >> THEN "idle" ELSE "done"
  /\ result' = ret
  /\ something_changed' = FALSE
  /\ var_index' = 0
  /\ pending' = {}
  /\ terms' = {}
  /\ IF ret = << >>
       THEN /\ assignments' = [name \in {} |-> {}]
            /\ passes' = 0
            /\ pass_start' = [name \in {} |-> {}]
       ELSE UNCHANGED <<assignments, passes, pass_start>>

Range(s) == { s[i] : i \in DOMAIN s }

EmptyDict == [k \in {} |-> TrueValue]

\* The identity of the And that always_true() builds and of the Or that
\* solve() builds; the objects the caller built have ids <<1>>, <<2>>, ...
SolverId == <<0>>

\* The path of the objects a simplify() call made by solve() creates: they
\* are stored nowhere, so they never meet the objects of another call
SimplifyPath == <<0, 0>>

\* Solver.__init__
Init ==
  /\ variables = << >>
  /\ values = << >>
  /\ implications = EmptyDict
  /\ ground_truth = TrueValue
  /\ raised = NotRaised
  /\ pc = "idle"
  /\ assignments = [name \in {} |-> {}]
  /\ something_changed = FALSE
  /\ var_index = 0
  /\ pending = {}
  /\ terms = {}
  /\ passes = 0
  /\ pass_start = [name \in {} |-> {}]
  /\ result = << >>
  /\ held = {}
  /\ call = NoCall
  /\ objects = 0

\* Solver.register_variable
register_variable(variable) ==
  /\ NotSolving
  /\ variables' = Append(variables, variable)
  /\ raised' = NotRaised
  /\ Returned(<< >>)
  /\ UNCHANGED <<values, implications, ground_truth>>

\* Solver.register_value
register_value(value) ==
  /\ NotSolving
  /\ values' = Append(values, value)
  /\ raised' = NotRaised
  /\ Returned(<< >>)
  /\ UNCHANGED <<variables, implications, ground_truth>>

\* Mutant of always_true: the formula is not checked
always_true_unchecked(formula) ==
  /\ NotSolving
  /\ ground_truth' = And(SolverId, {ground_truth, formula})
  /\ raised' = NotRaised
  /\ Returned(<< >>)
  /\ UNCHANGED <<variables, values, implications>>

\* Solver.always_true
always_true(formula) ==
  /\ NotSolving
  /\ IF formula # FalseValue
       THEN /\ ground_truth' = And(SolverId, {ground_truth, formula})
            /\ raised' = NotRaised
       ELSE /\ raised' = "assert formula != FALSE"
            /\ UNCHANGED ground_truth
  /\ Returned(<< >>)
  /\ UNCHANGED <<variables, values, implications>>

\* Solver.implies: the first of its three checks that fails, or ""
implies_check(e) ==
  IF e = FalseValue \/ e = TrueValue THEN "Illegal equation"
  ELSE IF e.kind # "Eq" THEN "assert isinstance(e, Eq)"
  ELSE IF e \in DOMAIN implications THEN "assert e not in self.implications"
  ELSE NotRaised

\* Mutant of implies: the implication is stored without any check
implies_unchecked(e, implication) ==
  /\ NotSolving
  /\ implications' = [k \in DOMAIN implications \cup {e} |->
                         IF k = e THEN implication ELSE implications[k]]
  /\ raised' = NotRaised
  /\ Returned(<< >>)
  /\ UNCHANGED <<variables, values, ground_truth>>

\* Solver.implies
implies(e, implication) ==
  /\ NotSolving
  /\ raised' = implies_check(e)
  /\ IF raised' = NotRaised
       THEN implications' = [k \in DOMAIN implications \cup {e} |->
                               IF k = e THEN implication ELSE implications[k]]
       ELSE UNCHANGED implications
  /\ Returned(<< >>)
  /\ UNCHANGED <<variables, values, ground_truth>>

\* Mutant of _complete: a missing implication is taken to be FALSE
_complete_false(impl) ==
  [e \in DOMAIN impl \cup { Eq(var, value) : var \in Range(variables),
                                              value \in Range(values) } |->
     IF e \in DOMAIN impl THEN impl[e] ELSE FalseValue]

\* Solver._complete
_complete(impl) ==
  [e \in DOMAIN impl \cup { Eq(var, value) : var \in Range(variables),
                                              value \in Range(values) } |->
     IF e \in DOMAIN impl THEN impl[e] ELSE TrueValue]

\* solve(): the dict comprehension that builds assignments
InitialAssignments(impl) ==
  [var \in Range(variables) |->
     { value \in Range(values) : impl[Eq(var, value)] # FalseValue }]

\* Mutant of Narrow: a pivot that is no key of assignments becomes one
NarrowAddsKeys(assign, pivots) ==
  [var \in DOMAIN assign \cup DOMAIN pivots |->
     IF var \notin DOMAIN assign THEN pivots[var]
     ELSE IF var \in DOMAIN pivots THEN assign[var] \cap pivots[var]
     ELSE assign[var]]

\* "if pivot in assignments: assignments[pivot] &= set(possible_values)"
Narrow(assign, pivots) ==
  [var \in DOMAIN assign |->
     IF var \in DOMAIN pivots THEN assign[var] \cap pivots[var] ELSE assign[var]]

\* Mutant of narrow_by: a term that simplifies to FALSE leaves no candidate
narrow_by_empties(term, assign) ==
  IF simplify(term, assign, SimplifyPath) = FalseValue
    THEN [var \in DOMAIN assign |-> {}]
    ELSE Narrow(assign, extract_pivots(simplify(term, assign, SimplifyPath)))

\* solve(): a term is simplified against the assignments and its pivots
\* narrow them (the ground truth, then the Or of each variable's terms)
narrow_by(term, assign) ==
  Narrow(assign, extract_pivots(simplify(term, assign, SimplifyPath)))

\* Mutant of falsified: the implication is simplified against the
\* assignments the pass began with
falsified_stale(impl, assign, var, value) ==
  simplify(impl[Eq(var, value)], pass_start, SimplifyPath) = FalseValue

\* solve(): the body of "for value in assignments[var].copy()": the value
\* goes when its implication simplifies to FALSE
falsified(impl, assign, var, value) ==
  simplify(impl[Eq(var, value)], assign, SimplifyPath) = FalseValue

\* Mutant of visit_value: the value is not removed
visit_value_keeps(impl, assign, var, value) == assign

visit_value(impl, assign, var, value) ==
  IF falsified(impl, assign, var, value)
    THEN [assign EXCEPT ![var] = @ \ {value}]
    ELSE assign

\* solve(): "something_changed |= (length_before != length_after)", over
\* the pivots that are in assignments
LengthChanged(before, after) ==
  \E pivot \in DOMAIN before :
     Cardinality(before[pivot]) # Cardinality(after[pivot])

\* The number of (variable, value) candidates of an assignment
Total(assign) == Cardinality({ <<var, value>> \in (DOMAIN assign) \X LabelSet :
                                 value \in assign[var] })

\* solve(), from its call to the end of the dict comprehension
solve_begin ==
  /\ NotSolving
  /\ implications' = _complete(implications)
  /\ assignments' = InitialAssignments(implications')
  /\ pc' = "ground"
  /\ raised' = NotRaised
  /\ something_changed' = FALSE
  /\ var_index' = 0
  /\ pending' = {}
  /\ terms' = {}
  /\ passes' = 0
  /\ pass_start' = assignments'
  /\ UNCHANGED <<variables, values, ground_truth, result>>

\* solve(): the ground truth narrows the assignments
solve_ground ==
  /\ pc = "ground"
  /\ assignments' = narrow_by(ground_truth, assignments)
  /\ something_changed' = TRUE
  /\ pc' = "while"
  /\ UNCHANGED <<variables, values, implications, ground_truth, raised,
                 var_index, pending, terms, passes, pass_start, result>>

\* Mutant of solve_pass: the pass begins from the initial assignments again
solve_pass_rebuilds ==
  /\ pc = "while"
  /\ something_changed
  /\ something_changed' = FALSE
  /\ passes' = passes + 1
  /\ assignments' = InitialAssignments(implications)
  /\ pass_start' = assignments'
  /\ IF variables = << >>
       THEN /\ pc' = "while"
            /\ UNCHANGED <<var_index, pending>>
       ELSE /\ pc' = "for"
            /\ var_index' = 1
            /\ pending' = assignments'[variables[1]]
  /\ terms' = {}
  /\ UNCHANGED <<variables, values, implications, ground_truth, raised, result>>

\* solve(): "while something_changed" is true and a pass begins
solve_pass ==
  /\ pc = "while"
  /\ something_changed
  /\ something_changed' = FALSE
  /\ passes' = passes + 1
  /\ pass_start' = assignments
  /\ IF variables = << >>
       THEN /\ pc' = "while"
            /\ UNCHANGED <<var_index, pending>>
       ELSE /\ pc' = "for"
            /\ var_index' = 1
            /\ pending' = assignments[variables[1]]
  /\ terms' = {}
  /\ UNCHANGED <<variables, values, implications, ground_truth, raised,
                 assignments, result>>

\* Mutant of solve_value: a removal does not set something_changed
solve_value_forgets(value) ==
  /\ pc = "for"
  /\ value \in pending
  /\ LET var == variables[var_index]
     IN  /\ assignments' = visit_value(implications, assignments, var, value)
         /\ terms' = terms \cup {implications[Eq(var, value)]}
  /\ pending' = pending \ {value}
  /\ UNCHANGED <<variables, values, implications, ground_truth, raised, pc,
                 something_changed, var_index, passes, pass_start, result>>

\* solve(): one iteration of "for value in assignments[var].copy()"
solve_value(value) ==
  /\ pc = "for"
  /\ value \in pending
  /\ LET var == variables[var_index]
     IN  /\ assignments' = visit_value(implications, assignments, var, value)
         /\ something_changed' =
              (something_changed \/ falsified(implications, assignments, var, value))
         /\ terms' = terms \cup {implications[Eq(var, value)]}
  /\ pending' = pending \ {value}
  /\ UNCHANGED <<variables, values, implications, ground_truth, raised, pc,
                 var_index, passes, pass_start, result>>

\* solve(): "d = Or(terms)" to the end of the body of "for var"
solve_pivots ==
  /\ pc = "for"
  /\ pending = {}
  /\ assignments' = narrow_by(Or(SolverId, terms), assignments)
  /\ something_changed' = (something_changed \/ LengthChanged(assignments, assignments'))
  /\ terms' = {}
  /\ IF var_index < Len(variables)
       THEN /\ var_index' = var_index + 1
            /\ pending' = assignments'[variables[var_index + 1]]
            /\ pc' = "for"
       ELSE /\ var_index' = 0
            /\ pending' = {}
            /\ pc' = "while"
  /\ UNCHANGED <<variables, values, implications, ground_truth, raised,
                 passes, pass_start, result>>

\* Mutant of solve_return: the implications are used up by solve()
solve_return_clears ==
  /\ pc = "while"
  /\ ~something_changed
  /\ Returned(<<assignments>>)
  /\ implications' = [e \in DOMAIN implications |-> TrueValue]
  /\ UNCHANGED <<variables, values, ground_truth, raised>>

\* solve(): "while something_changed" is false: "return assignments"
solve_return ==
  /\ pc = "while"
  /\ ~something_changed
  /\ Returned(<<assignments>>)
  /\ UNCHANGED <<variables, values, implications, ground_truth, raised>>

solve ==
  \/ solve_begin
  \/ solve_ground
  \/ solve_pass
  \/ \E value \in LabelSet : solve_value(value)
  \/ solve_pivots
  \/ solve_return

Next ==
  \/ \E variable \in VarInputs :
        /\ Len(variables) < MaxVariables /\ register_variable(variable)
        /\ UNCHANGED term_vars
  \/ \E value \in ValueInputs :
        /\ Len(values) < MaxValues /\ register_value(value)
        /\ UNCHANGED term_vars
  \/ \E formula \in TruthInputs : always_true(formula) /\ UNCHANGED term_vars
  \/ \E call_args \in ImplyInputs :
        /\ Cardinality(DOMAIN implications) < MaxImplications
        /\ implies(call_args[1], call_args[2])
        /\ UNCHANGED term_vars
  \/ solve /\ UNCHANGED term_vars

Spec == Init /\ [][Next]_vars

\* The calls of the docstring's example, each label registered once
NextExample ==
  \/ \E variable \in ExampleVariables :
        /\ variable \notin Range(variables) /\ register_variable(variable)
        /\ UNCHANGED term_vars
  \/ \E value \in ExampleValues :
        /\ value \notin Range(values) /\ register_value(value)
        /\ UNCHANGED term_vars
  \/ \E formula \in {ExampleTruth, FalseValue} :
        always_true(formula) /\ UNCHANGED term_vars
  \/ \E call_args \in ExampleImplications \cup {<<Eq("t", "t"), TrueValue>>} :
        implies(call_args[1], call_args[2]) /\ UNCHANGED term_vars
  \/ solve /\ UNCHANGED term_vars

SpecExample == Init /\ [][NextExample]_vars

\* The most registrations of variables when labels are registered again
MaxRegistrations == 3

\* Arguments of implies for a system whose labels are registered again
AgainImplyInputs ==
  { <<Eq("x", "1"), And(<<1>>, {Eq("y", "x"), Eq("x", "1")})>>,
    <<Eq("x", "2"), Eq("x", "1")>>,
    <<Eq("y", "1"), Eq("x", "2")>> }

\* The calls of a caller that registers labels more than once
NextAgain ==
  \/ \E variable \in VarInputs :
        /\ Len(variables) < MaxRegistrations /\ register_variable(variable)
        /\ UNCHANGED term_vars
  \/ \E value \in ValueInputs :
        /\ Len(values) < MaxValues /\ register_value(value)
        /\ UNCHANGED term_vars
  \/ \E call_args \in AgainImplyInputs :
        implies(call_args[1], call_args[2]) /\ UNCHANGED term_vars
  \/ solve /\ UNCHANGED term_vars

SpecAgain == Init /\ [][NextAgain]_vars

\* Values for a caller that registers the label x as a value too
SharedValueInputs == {"1", "x"}

\* Arguments of implies for that caller
SharedImplyInputs ==
  { <<Eq("x", "1"), Eq("y", "1")>>, <<Eq("y", "x"), FalseValue>>,
    <<TrueValue, TrueValue>> }

\* Arguments of always_true for that caller
SharedTruthInputs == {Eq("y", "1")}

\* The calls of a caller whose variables and values share a label
NextShared ==
  \/ \E variable \in VarInputs :
        /\ Len(variables) < MaxVariables /\ register_variable(variable)
        /\ UNCHANGED term_vars
  \/ \E value \in SharedValueInputs :
        /\ Len(values) < MaxValues /\ register_value(value)
        /\ UNCHANGED term_vars
  \/ \E formula \in SharedTruthInputs : always_true(formula) /\ UNCHANGED term_vars
  \/ \E call_args \in SharedImplyInputs :
        implies(call_args[1], call_args[2]) /\ UNCHANGED term_vars
  \/ solve /\ UNCHANGED term_vars

SpecShared == Init /\ [][NextShared]_vars

-----------------------------------------------------------------------------
(***************************************************************************)
(* A caller of the term classes: it builds terms with Eq, And and Or, keeps *)
(* them, and calls simplify and extract_pivots on the terms it keeps.       *)
(***************************************************************************)
\* The most terms the caller keeps
MaxHeld == 3

\* The most And/Or objects the caller's calls create
MaxObjects == 3

\* The arguments the caller passes to Eq: two equalities, one of them in
\* both orders of its operands, and a label with itself
EqInputs == { <<"x", "y">>, <<"y", "x">>, <<"x", "1">>, <<"x", "x">> }

\* The assignments the caller simplifies against
SimplifyInputs ==
  { [var \in {"x", "y"} |-> {"1", "2"}],
    [var \in {"x", "y"} |-> IF var = "x" THEN {"1"} ELSE {"2"}],
    [var \in {"x"} |-> {"2"}] }

\* The identity of the next object a call of the caller creates
NextId == <<objects + 1>>

\* A call has returned ret: it is kept if there is room, and it is a new
\* object when it is an And/Or whose identity begins with NextId
Called(op, args, ret) ==
  /\ call' = [op |-> op, args |-> args, ret |-> ret]
  /\ held' = IF Cardinality(held \cup {ret}) <= MaxHeld
                THEN held \cup {ret} ELSE held
  /\ objects' = IF ret.kind \in {"And", "Or"} /\ ret.id[1] = objects + 1
                   THEN objects + 1 ELSE objects
  /\ UNCHANGED solver_vars

\* Eq(left, right)
new_Eq(left, right) == Called("Eq", <<left, right>>, Eq(left, right))

\* And(exprs)
new_And(exprs) ==
  /\ objects < MaxObjects
  /\ Called("And", exprs, And(NextId, exprs))

\* Or(exprs)
new_Or(exprs) ==
  /\ objects < MaxObjects
  /\ Called("Or", exprs, Or(NextId, exprs))

\* term.simplify(assign)
call_simplify(term, assign) ==
  /\ objects < MaxObjects
  /\ Called("simplify", <<term, assign>>, simplify(term, assign, NextId))

\* term.extract_pivots(): the dict it returns is not a term and is not kept
call_extract_pivots(term) ==
  /\ call' = [op |-> "extract_pivots", args |-> <<term>>,
              ret |-> extract_pivots(term)]
  /\ UNCHANGED <<held, objects>>
  /\ UNCHANGED solver_vars

\* What the caller passes to And and Or: terms it kept, TRUE and FALSE
Operands == held \cup {TrueValue, FalseValue}

NextTerms ==
  \/ \E call_args \in EqInputs : new_Eq(call_args[1], call_args[2])
  \/ \E exprs \in SUBSET Operands : new_And(exprs)
  \/ \E exprs \in SUBSET Operands : new_Or(exprs)
  \/ \E term \in Operands, assign \in SimplifyInputs : call_simplify(term, assign)
  \/ \E term \in Operands : call_extract_pivots(term)

SpecTerms == Init /\ [][NextTerms]_vars

-----------------------------------------------------------------------------
(***************************************************************************)
(* What the terms mean: the solutions of a system                          *)
(***************************************************************************)
\* The label a label stands for under sigma, a map from variables to values
ValueUnder(sigma, label) ==
  IF label \in DOMAIN sigma THEN sigma[label] ELSE label

RECURSIVE Holds(_, _)
\* The truth of a term under sigma
Holds(t, sigma) ==
  CASE t.kind = "TRUE" -> TRUE
    [] t.kind = "FALSE" -> FALSE
    [] t.kind = "Eq" -> ValueUnder(sigma, t.left) = ValueUnder(sigma, t.right)
    [] t.kind = "And" -> \A c \in t.exprs : Holds(c, sigma)
    [] t.kind = "Or" -> \E c \in t.exprs : Holds(c, sigma)

\* The implication of Eq(var, value): TRUE when none is registered
ImplicationOf(var, value) ==
  IF Eq(var, value) \in DOMAIN implications
    THEN implications[Eq(var, value)]
    ELSE TrueValue

\* The satisfying assignments: the ground truth holds, and so does the
\* implication of the value each variable takes
Solutions ==
  { sigma \in [Range(variables) -> Range(values)] :
      /\ Holds(ground_truth, sigma)
      /\ \A var \in Range(variables) :
            Holds(ImplicationOf(var, sigma[var]), sigma) }

Disjoint == Range(variables) \cap Range(values) = {}

Solving == pc \in {"ground", "while", "for"}

RECURSIVE Subterms(_)
\* A term and the terms inside it
Subterms(t) == {t} \cup UNION { Subterms(c) : c \in t.exprs }

\* The terms the solver holds
StoredTerms ==
  UNION { Subterms(t) : t \in DOMAIN implications \cup Range(implications)
                                \cup {ground_truth} }

\* Variables and values are different labels, and the terms name no other
WellFormed ==
  /\ Disjoint
  /\ \A t \in StoredTerms :
        t.kind = "Eq" => {t.left, t.right} \subseteq Range(variables) \cup Range(values)

-----------------------------------------------------------------------------
(***************************************************************************)
(* Claims                                                                  *)
(***************************************************************************)

\* C1: solve() returns for each variable exactly the values the variable
\* takes in at least one satisfying assignment (stated here for the systems
\* that have one, and whose terms name registered labels only).
SolveReturnsExactlyTheSolutions ==
  (pc = "done" /\ WellFormed /\ Solutions # {}) =>
    \A var \in DOMAIN result[1] :
       result[1][var] = { sigma[var] : sigma \in Solutions }

\* C2: with variable and value labels disjoint, the value a variable takes
\* in a satisfying assignment is in the set solve() returns for it.
SolveKeepsEveryPossibleValue ==
  (pc = "done" /\ Disjoint) =>
    \A sigma \in Solutions : \A var \in DOMAIN result[1] :
       sigma[var] \in result[1][var]

\* C2 witness: a satisfiable system that took two passes and lost a value
SolvedNarrowedSatisfiable ==
  /\ pc = "done" /\ Disjoint
  /\ passes >= 2
  /\ Solutions # {}
  /\ \E var \in DOMAIN result[1] : result[1][var] # Range(values)

\* C3: the loop halts after a pass that changes no candidate set, a pass
\* that does not halt it strictly decreases the number of candidates, and
\* there are at most |variables| * |values| + 1 passes.
LoopHaltsWithinBound ==
  /\ passes <= Cardinality(Range(variables)) * Cardinality(Range(values)) + 1
  /\ (pc = "while" /\ passes > 0 /\ something_changed)
       => Total(assignments) < Total(pass_start)
  /\ (pc = "while" /\ passes > 0 /\ ~something_changed)
       => assignments = pass_start
  /\ pc = "done" => (passes >= 1 /\ assignments = pass_start)

\* C3 witness: a solve() that needed three passes
SolvedInThreePasses == pc = "done" /\ passes >= 3

\* C4: after the initial assignment is built, every step of solve() leaves
\* each candidate set a subset of what it was, and of what it was at the start.
CandidatesOnlyShrink ==
  [][ (Solving /\ pc' # "idle") =>
        /\ DOMAIN assignments' = DOMAIN assignments
        /\ \A var \in DOMAIN assignments :
              /\ assignments'[var] \subseteq assignments[var]
              /\ assignments'[var] \subseteq InitialAssignments(implications)[var]
    ]_vars

\* C4 witness: in the middle of a pass a candidate set has lost a value
ShrunkInsideAPass ==
  /\ pc = "for"
  /\ \E var \in DOMAIN assignments :
        assignments[var] # InitialAssignments(implications)[var]

RECURSIVE AfterVisits(_, _, _, _)
\* The assignments the loop over a variable's values may leave, in any order
AfterVisits(impl, assign, var, todo) ==
  IF todo = {} THEN {assign}
  ELSE UNION { AfterVisits(impl, visit_value(impl, assign, var, value), var,
                           todo \ {value}) : value \in todo }

RECURSIVE AfterPass(_, _, _)
\* The assignments one pass over variables[i], variables[i+1], ... may leave
AfterPass(impl, assign, i) ==
  IF i > Len(variables) THEN {assign}
  ELSE LET var == variables[i]
           d   == Or(SolverId, { impl[Eq(var, value)] : value \in assign[var] })
       IN  UNION { AfterPass(impl, narrow_by(d, a), i + 1)
                   : a \in AfterVisits(impl, assign, var, assign[var]) }

\* C5: one more pass over the assignment solve() returned changes nothing.
OneMorePassChangesNothing ==
  pc = "done" => AfterPass(implications, result[1], 1) = {result[1]}

\* C5 witness: a returned assignment that the loop had to narrow
SolvedAfterNarrowing ==
  /\ pc = "done"
  /\ passes >= 2
  /\ result[1] # InitialAssignments(implications)

\* The docstring's example is registered in full and solved
ExampleSolved ==
  /\ pc = "done"
  /\ variables = <<"t">>
  /\ Range(values) = ExampleValues
  /\ \A call_args \in ExampleImplications :
        /\ call_args[1] \in DOMAIN implications
        /\ implications[call_args[1]] = call_args[2]
  /\ ground_truth = ExampleTruth

\* C6: for the docstring's example solve() returns t -> {v1, v2}.
ExampleResult ==
  ExampleSolved => result[1] = [var \in {"t"} |-> {"v1", "v2"}]

\* C7 witness: x and y over the values 1 and 2, no implication but TRUE,
\* and the ground truth x = y, are solved
TwoVariablesSolved ==
  /\ pc = "done"
  /\ Range(variables) = {"x", "y"}
  /\ Range(values) = {"1", "2"}
  /\ \A e \in DOMAIN implications : implications[e] = TrueValue
  /\ ground_truth = Eq("x", "y")

\* C7: for x = y over the values 1 and 2 solve() returns {1, 2} for both.
TwoVariablesResult ==
  TwoVariablesSolved => result[1] = [var \in {"x", "y"} |-> {"1", "2"}]

\* C8 as stated: for x and y whose candidate sets are both {1, 2},
\* simplify returns Eq(x, y) unchanged.
OverlappingEqualityUnchanged ==
  (Solving /\ DOMAIN assignments = {"x", "y"}
     /\ assignments["x"] = {"1", "2"} /\ assignments["y"] = {"1", "2"})
    => simplify(Eq("x", "y"), assignments, SimplifyPath) = Eq("x", "y")

\* C8 as amended: an equality of two variables, neither a candidate of the
\* other, is rewritten: to FALSE when they share no candidate, else to a
\* term that is no longer the equality and whose pivots bound both
\* variables to the shared candidates; for x and y over {1, 2} it is
\* (x = 1 & 1 = y) | (x = 2 & 2 = y).
OverlappingEqualityRewritten ==
  (Solving /\ Disjoint) =>
    \A a, b \in DOMAIN assignments :
       Rank(a) > Rank(b) =>
         LET s      == simplify(Eq(a, b), assignments, SimplifyPath)
             shared == assignments[a] \cap assignments[b]
             pivots == extract_pivots(s)
         IN  /\ s # Eq(a, b)
             /\ shared = {} => s = FalseValue
             /\ shared # {} => (pivots[a] = shared /\ pivots[b] = shared)
             /\ ({a, b} = {"x", "y"} /\ assignments[a] = {"1", "2"}
                   /\ assignments[b] = {"1", "2"})
                  => s = Or(SimplifyPath,
                            { And(SimplifyPath \o <<1>>, {Eq("x", "1"), Eq("1", "y")}),
                              And(SimplifyPath \o <<2>>, {Eq("x", "2"), Eq("2", "y")}) })

\* C8 witness: solve() is about to simplify x = y with both sets {1, 2}
AboutToSimplifyEquality ==
  /\ pc = "ground"
  /\ ground_truth = Eq("x", "y")
  /\ assignments = [var \in {"x", "y"} |-> {"1", "2"}]

\* C9: with no implication and ground truth TRUE solve() returns every
\* value for every variable; a pair without a registered implication is in
\* the initial candidate set and the loop over the values never removes it.
UnregisteredPairsStay ==
  [][ /\ (NotSolving /\ pc' = "ground") =>
           \A var \in Range(variables) : \A value \in Range(values) :
              Eq(var, value) \notin DOMAIN implications
                => value \in assignments'[var]
      /\ (pc = "for" /\ pending' # pending /\ pending # {}) =>
           \A var \in DOMAIN assignments :
              \A value \in assignments[var] \ assignments'[var] :
                 implications[Eq(var, value)] # TrueValue
      /\ (pc' = "done" /\ ground_truth = TrueValue
            /\ \A e \in DOMAIN implications : implications[e] = TrueValue) =>
           \A var \in Range(variables) : result'[1][var] = Range(values)
    ]_vars

\* C9 witness: a system without implications or ground truth is solved
UnconstrainedSolved ==
  /\ pc = "done"
  /\ Len(variables) = MaxVariables /\ Len(values) = MaxValues
  /\ ground_truth = TrueValue
  /\ \A e \in DOMAIN implications : implications[e] = TrueValue
  /\ \A var \in Range(variables) : result[1][var] = Range(values)

\* Eq.__new__ on every pair of labels: the two orders of the operands give
\* one term, and equal labels give TRUE
EqOnLabels ==
  \A a, b \in LabelSet :
     LET ab == Eq(a, b)
         ba == Eq(b, a)
     IN  /\ ab = ba
         /\ TermEq(ab, ba)
         /\ Hash(ab) = Hash(ba)
         /\ a # b => /\ ab.kind = "Eq"
                     /\ {ab.left, ab.right} = {a, b}
                     /\ Rank(ab.left) > Rank(ab.right)
         /\ a = b => ab = TrueValue

RECURSIVE Canonical(_)
\* Every Eq inside a term has left > right
Canonical(t) ==
  /\ t.kind = "Eq" => Rank(t.left) > Rank(t.right)
  /\ \A c \in t.exprs : Canonical(c)

\* C10: Eq(a, b) and Eq(b, a) are equal terms with equal hashes whose
\* operands are stored with left > right, and Eq(a, a) is TRUE: no Eq with
\* left = right exists.
EqIsSymmetricAndCanonical ==
  /\ EqOnLabels
  /\ Canonical(ground_truth)
  /\ \A e \in DOMAIN implications : Canonical(e) /\ Canonical(implications[e])

\* C10 witness: solve() has stored the equalities of every variable and
\* value, built as Eq(var, value) and found again as Eq(value, var)
EqualitiesStored ==
  /\ variables # << >> /\ values # << >>
  /\ \A var \in Range(variables) : \A value \in Range(values) :
        /\ Eq(var, value) \in DOMAIN implications
        /\ Eq(value, var) \in DOMAIN implications
        /\ Eq(value, var).left = var

-----------------------------------------------------------------------------
(***************************************************************************)
(* Claims about the term classes, checked where a caller builds the terms   *)
(***************************************************************************)
\* The last call of the caller returned a term
ReturnedTerm == call.op \in {"Eq", "And", "Or", "simplify"}

RECURSIVE NormalForm(_)
\* An And/Or has two children or more, none of its own kind and none a
\* constant, and its children are in normal form too
NormalForm(t) ==
  t.kind \in {"And", "Or"} =>
    /\ Cardinality(t.exprs) >= 2
    /\ \A c \in t.exprs :
          /\ c.kind # t.kind
          /\ c \notin {TrueValue, FalseValue}
          /\ NormalForm(c)

\* C11: every And/Or that a constructor or simplify returns has at least 2
\* children, no direct child of its own kind and no TRUE or FALSE child.
ConstructedInNormalForm ==
  /\ \A t \in held : NormalForm(t)
  /\ ReturnedTerm => NormalForm(call.ret)

\* C11 witness: And was given an And, TRUE and a third term, and returned
\* an And object
FlattenedAnAnd ==
  /\ call.op = "And"
  /\ TrueValue \in call.args
  /\ \E e \in call.args : e.kind = "And"
  /\ Cardinality(call.args) >= 3
  /\ call.ret.kind = "And"

RECURSIVE Structure(_)
\* The canonical structure of a term: the term without the identities
Structure(t) ==
  [kind |-> t.kind, left |-> t.left, right |-> t.right,
   exprs |-> { Structure(c) : c \in t.exprs }, id |-> NoId]

\* C12: two terms of the same canonical structure compare equal and hash
\* alike, so they are one member of a set and one key of a dict, and And or
\* Or given both keeps one child.
SameStructureSameTerm ==
  /\ \A a, b \in held :
        Structure(a) = Structure(b) =>
          /\ TermEq(a, b)
          /\ Hash(a) = Hash(b)
          /\ Cardinality({a, b}) = 1
  /\ (call.op \in {"And", "Or"} /\ call.args # {}
        /\ \A a, b \in call.args : Structure(a) = Structure(b))
       => \E a \in call.args : TermEq(call.ret, a)

\* C13: And({x, TRUE}) equals x, And({x, FALSE}) equals FALSE,
\* Or({x, FALSE}) equals x, Or({x, TRUE}) equals TRUE, And({}) equals TRUE
\* and Or({}) equals FALSE.
ConstantsAreIdentityAndAbsorbing ==
  /\ call.op = "And" =>
        /\ call.args = {} => call.ret = TrueValue
        /\ FalseValue \in call.args => call.ret = FalseValue
        /\ \A x \in call.args :
              call.args = {x, TrueValue} => TermEq(call.ret, x)
  /\ call.op = "Or" =>
        /\ call.args = {} => call.ret = FalseValue
        /\ TrueValue \in call.args => call.ret = TrueValue
        /\ \A x \in call.args :
              call.args = {x, FalseValue} => TermEq(call.ret, x)

\* C13 witness: Or was given an Or and FALSE and returned another object
\* that equals the Or
OrOfAnOrAndFalse ==
  /\ call.op = "Or"
  /\ \E x \in call.args :
        /\ x.kind = "Or"
        /\ call.args = {x, FalseValue}
        /\ call.ret # x
        /\ TermEq(call.ret, x)

\* C14 as stated: And (or Or) over 2 or more terms, none of its own kind,
\* returns an And (or Or) whose children are those terms.
NormalizedInputIsKept ==
  (call.op \in {"And", "Or"} /\ Cardinality(call.args) >= 2
     /\ \A e \in call.args : e.kind # call.op)
    => (call.ret.kind = call.op /\ call.ret.exprs = call.args)

\* C14 as amended: the same, when none of the terms is TRUE or FALSE.
NormalizedInputWithoutConstantsIsKept ==
  (call.op \in {"And", "Or"} /\ Cardinality(call.args) >= 2
     /\ \A e \in call.args : e.kind # call.op
     /\ TrueValue \notin call.args /\ FalseValue \notin call.args)
    => (call.ret.kind = call.op /\ call.ret.exprs = call.args)

\* C14 witness: And was given an Or and an equality and returned an And of
\* the two
AndOfAnOrAndAnEq ==
  /\ call.op = "And"
  /\ Cardinality(call.args) = 2
  /\ \E a, b \in call.args : a.kind = "Or" /\ b.kind = "Eq"
  /\ call.ret.kind = "And"
  /\ call.ret.exprs = call.args

\* C19: for distinct labels a and b the pivots of Eq(a, b) are
\* {a: {b}, b: {a}}, and the pivots of TRUE and of FALSE are the empty dict.
PivotsOfLeaves ==
  call.op = "extract_pivots" =>
    LET term == call.args[1]
    IN  /\ term \in {TrueValue, FalseValue} => call.ret = EmptyPivots
        /\ \A a, b \in LabelSet :
              (a # b /\ term = Eq(a, b)) =>
                /\ DOMAIN call.ret = {a, b}
                /\ call.ret[a] = {b}
                /\ call.ret[b] = {a}

\* C19 witness: extract_pivots was called on an equality
PivotsOfAnEquality ==
  /\ call.op = "extract_pivots"
  /\ call.args[1].kind = "Eq"
  /\ DOMAIN call.ret = {call.args[1].left, call.args[1].right}

-----------------------------------------------------------------------------
(***************************************************************************)
(* Claims about the calls that register                                     *)
(***************************************************************************)
\* C15: implies fails when an implication is already recorded for the
\* equality, also when the equality is built with its operands swapped
\* (Eq gives both orders of the operands one term), and the failing call
\* leaves the table and the first recorded term unchanged.
SecondImplicationFails ==
  [][ /\ \/ implications' = implications
         \/ \A e \in DOMAIN implications :
               e \in DOMAIN implications' /\ implications'[e] = implications[e]
      /\ EqOnLabels
      /\ \A call_args \in ImplyInputs :
            (/\ call_args[1] \in DOMAIN implications
             /\ implies(call_args[1], call_args[2])) =>
               /\ raised' = "assert e not in self.implications"
               /\ implications' = implications
    ]_vars

\* C15 witness: the last call was an implies for an equality that had an
\* implication, and it raised
SecondImplicationRaised ==
  /\ pc = "idle"
  /\ raised = "assert e not in self.implications"
  /\ implications # EmptyDict

\* C16: implies fails, and leaves the table unchanged, when e is TRUE, FALSE
\* or not an Eq; implies(Eq(a, a), term) fails because Eq(a, a) is TRUE for
\* every label a. So every key of the table is an Eq.
ImplicationOfNoEqualityFails ==
  [][ /\ \A e \in DOMAIN implications' : e.kind = "Eq"
      /\ \A call_args \in ImplyInputs :
            (call_args[1].kind # "Eq" /\ implies(call_args[1], call_args[2])) =>
              /\ raised' \in {"Illegal equation", "assert isinstance(e, Eq)"}
              /\ implications' = implications
      /\ EqOnLabels
    ]_vars

\* C16 witness: the last call was an implies for TRUE or FALSE, made when
\* the table had an implication, and it raised
IllegalEquationRaised ==
  /\ pc = "idle"
  /\ raised = "Illegal equation"
  /\ implications # EmptyDict

\* The terms a ground truth is the conjunction of
Conjuncts(t) ==
  IF t.kind = "And" THEN t.exprs ELSE IF t = TrueValue THEN {} ELSE {t}

\* C17: always_true(FALSE) fails and leaves the ground truth unchanged;
\* otherwise the new ground truth equals And of the previous one and the
\* term, a normalized conjunction of the terms registered so far, and the
\* ground truth is never FALSE.
GroundTruthIsTheConjunction ==
  [][ /\ ground_truth' # FalseValue
      /\ \A formula \in TruthInputs :
            always_true(formula) =>
              IF formula = FalseValue
                THEN /\ raised' = "assert formula != FALSE"
                     /\ ground_truth' = ground_truth
                ELSE /\ raised' = NotRaised
                     /\ TermEq(ground_truth', And(SolverId, {ground_truth, formula}))
                     /\ Conjuncts(ground_truth') =
                          Conjuncts(ground_truth) \cup Conjuncts(formula)
                     /\ NormalForm(ground_truth')
    ]_vars

\* C17 witness: after two terms were registered always_true(FALSE) raised
FalseTruthRefused ==
  /\ pc = "idle"
  /\ raised = "assert formula != FALSE"
  /\ ground_truth.kind = "And"
  /\ Cardinality(ground_truth.exprs) = 2

\* The ground truth simplifies to FALSE against the initial assignments
FalseFromTheStart ==
  simplify(ground_truth, InitialAssignments(implications), SimplifyPath) = FalseValue

\* C18: when the ground truth simplifies to FALSE against the initial
\* assignment, solve() raises nothing, the narrowing by the ground truth
\* removes no label, and solve() returns an assignment.
UnsatisfiableIsSilent ==
  /\ (pc = "while" /\ passes = 0 /\ FalseFromTheStart) =>
        /\ assignments = InitialAssignments(implications)
        /\ raised = NotRaised
  /\ (pc = "done" /\ FalseFromTheStart) =>
        /\ raised = NotRaised
        /\ result = <<assignments>>
        /\ DOMAIN assignments = Range(variables)

\* C18 witness: solve() returned candidates for a system whose ground truth
\* was FALSE against the initial assignments
UnsatisfiableSolved ==
  /\ pc = "done"
  /\ FalseFromTheStart
  /\ \E var \in DOMAIN result[1] : result[1][var] # {}

RECURSIVE PassOver(_, _, _, _)
\* The assignments one pass of "for var in self.variables" may leave when
\* self.variables is vs, from vs[i] on
PassOver(impl, assign, vs, i) ==
  IF i > Len(vs) THEN {assign}
  ELSE LET var == vs[i]
           d   == Or(SolverId, { impl[Eq(var, value)] : value \in assign[var] })
       IN  UNION { PassOver(impl, narrow_by(d, a), vs, i + 1)
                   : a \in AfterVisits(impl, assign, var, assign[var]) }

RECURSIVE SolvedFrom(_, _, _)
\* The assignments "while something_changed" may end with when
\* self.variables is vs: passes are made until one changes nothing
SolvedFrom(impl, assign, vs) ==
  UNION { IF a = assign THEN {a} ELSE SolvedFrom(impl, a, vs)
          : a \in PassOver(impl, assign, vs, 1) }

\* The sequences that register each label of a set once
Once(labels) ==
  { vs \in [1..Cardinality(labels) -> labels] : Range(vs) = labels }

\* C20: solve() returns, for a system whose labels were registered more than
\* once, an assignment it can return when each label is registered once.
RegisteredAgainSolvesTheSame ==
  pc = "done" =>
    \E vs \in Once(Range(variables)) :
       result[1] \in SolvedFrom(implications,
                                narrow_by(ground_truth, InitialAssignments(implications)),
                                vs)

-----------------------------------------------------------------------------
(***************************************************************************)
(* Claims about simplify and extract_pivots                                *)
(***************************************************************************)
\* The labels and the assignments the pure functions are evaluated on: every
\* dict with keys among x and y and sets of the four labels
SmallLabels == {"x", "y", "1", "2"}

SmallAssignments ==
  UNION { [keys -> SUBSET SmallLabels] : keys \in SUBSET {"x", "y"} }

\* What the claim says Eq.simplify returns for the equality t: t itself, or
\* the Or, over the common candidates i, of And(Eq(left, i), Eq(i, right))
RewrittenEq(t, assign) ==
  IF t.right \in Get(assign, t.left) \/ t.left \in Get(assign, t.right)
    THEN t
    ELSE Or(NoId, { And(NoId, {Eq(t.left, i), Eq(i, t.right)})
                    : i \in Get(assign, t.left) \cap Get(assign, t.right) })

\* Eq.simplify on every equality of two of the labels and every assignment
EqSimplifyOnLabels ==
  \A a, b \in SmallLabels : \A assign \in SmallAssignments :
     a # b =>
       LET t   == Eq(a, b)
           ret == simplify(t, assign, SimplifyPath)
       IN  /\ Structure(ret) = Structure(RewrittenEq(t, assign))
           /\ (ret = t) <=> (\/ t.right \in Get(assign, t.left)
                             \/ t.left \in Get(assign, t.right))
           /\ (Get(assign, t.left) \cap Get(assign, t.right) = {} /\ ret # t)
                 => ret = FalseValue
           /\ b \notin DOMAIN assign =>
                 ((ret = FalseValue) <=> (b \notin Get(assign, a)))

\* C21: simplify on an equality returns the same Eq when right is a
\* candidate of left or left one of right, and otherwise the Or over the
\* common candidates i of And(Eq(left, i), Eq(i, right)), FALSE when there is
\* none; Eq(variable, value), the value no key of the assignment, simplifies
\* to FALSE exactly when the value is no candidate of the variable.
EqSimplifyRewrites ==
  /\ call = NoCall => EqSimplifyOnLabels
  /\ (call.op = "simplify" /\ call.args[1].kind = "Eq") =>
        Structure(call.ret) = Structure(RewrittenEq(call.args[1], call.args[2]))

\* C21 witness: an equality of two variables was simplified to an Or of two
\* conjunctions
EqualityRewrittenToAnOr ==
  /\ call.op = "simplify"
  /\ call.args[1].kind = "Eq"
  /\ call.ret.kind = "Or"
  /\ Cardinality(call.ret.exprs) = 2
  /\ \A c \in call.ret.exprs : c.kind = "And"

\* Terms over the four labels: the equalities, the And and the Or of two
\* equalities, the And of two of the equalities and Ors, and the Or of two of
\* the equalities and Ands
SmallEqs == { Eq(a, b) : a, b \in SmallLabels } \ {TrueValue}

Pairs(S) == { P \in { {a, b} : a, b \in S } : Cardinality(P) = 2 }

SmallAnds == { And(<<1>>, P) : P \in Pairs(SmallEqs) }

SmallOrs == { Or(<<2>>, P) : P \in Pairs(SmallEqs) }

NestedAnds == { And(<<3>>, P) : P \in Pairs(SmallEqs \cup SmallOrs) }

NestedOrs == { Or(<<4>>, P) : P \in Pairs(SmallEqs \cup SmallAnds) }

\* The children of t that have name among their pivots
ChildrenWith(t, name) == { c \in t.exprs : name \in DOMAIN extract_pivots(c) }

\* The claim's pivots of a conjunction: the union of the children's keys,
\* each with the intersection of the sets of the children that have it
MeetOfChildren(t, pivots) ==
  /\ DOMAIN pivots = UNION { DOMAIN extract_pivots(c) : c \in t.exprs }
  /\ \A name \in DOMAIN pivots :
        pivots[name] = { v \in LabelSet : \A c \in ChildrenWith(t, name) :
                                             v \in extract_pivots(c)[name] }

\* And.extract_pivots on every conjunction of the small terms
AndPivotsOnSmallTerms ==
  \A t \in SmallAnds \cup NestedAnds :
     t.kind = "And" => MeetOfChildren(t, extract_pivots(t))

\* C22: the keys of extract_pivots(And(children)) are the union of the
\* children's pivot keys, and each key has the intersection of the sets of
\* every child that has that key.
AndPivotsAreTheMeet ==
  /\ call = NoCall => AndPivotsOnSmallTerms
  /\ (call.op = "extract_pivots" /\ call.args[1].kind = "And") =>
        MeetOfChildren(call.args[1], call.ret)

\* C22 witness: the pivots of a conjunction were extracted, two children
\* have a key in common and a third key comes from one child
PivotsOfAConjunction ==
  /\ call.op = "extract_pivots"
  /\ call.args[1].kind = "And"
  /\ \E name \in DOMAIN call.ret : Cardinality(ChildrenWith(call.args[1], name)) = 2
  /\ \E name \in DOMAIN call.ret : Cardinality(ChildrenWith(call.args[1], name)) = 1

\* The claim's pivots of a disjunction: the keys that every child has, each
\* with the union of the children's sets
JoinOfChildren(t, pivots) ==
  /\ DOMAIN pivots = { name \in LabelSet : ChildrenWith(t, name) = t.exprs }
  /\ \A name \in DOMAIN pivots :
        pivots[name] = UNION { extract_pivots(c)[name] : c \in t.exprs }

\* Or.extract_pivots on every disjunction of the small terms
OrPivotsOnSmallTerms ==
  \A t \in SmallOrs \cup NestedOrs :
     t.kind = "Or" => JoinOfChildren(t, extract_pivots(t))

\* C23: the keys of extract_pivots(Or(children)) are exactly the labels that
\* are pivot keys of every child, each with the union of the children's sets
\* for it; a label that one child's pivots lack is no key of the result.
OrPivotsAreTheJoin ==
  /\ call = NoCall => OrPivotsOnSmallTerms
  /\ (call.op = "extract_pivots" /\ call.args[1].kind = "Or") =>
        /\ JoinOfChildren(call.args[1], call.ret)
        /\ \A c \in call.args[1].exprs : DOMAIN call.ret \subseteq DOMAIN extract_pivots(c)

\* C23 witness: the pivots of a disjunction were extracted; a key of all the
\* children has the values of two of them and a key of one child is dropped
PivotsOfADisjunction ==
  /\ call.op = "extract_pivots"
  /\ call.args[1].kind = "Or"
  /\ \E name \in DOMAIN call.ret : Cardinality(call.ret[name]) >= 2
  /\ \E c \in call.args[1].exprs : DOMAIN extract_pivots(c) \ DOMAIN call.ret # {}

-----------------------------------------------------------------------------
(***************************************************************************)
(* Claims about solve()                                                    *)
(***************************************************************************)
\* The table has an entry for every registered variable and every registered
\* value with a different label
Complete(impl) ==
  \A var \in Range(variables) : \A value \in Range(values) :
     var # value => Eq(var, value) \in DOMAIN impl

\* C24: from its completion step on, and after solve(), the table has an
\* entry for Eq(variable, value) for every registered variable and every
\* registered value with a different label; completion inserts TRUE, for
\* missing pairs only, and no step replaces or removes an entry.
CompletionIsTotal ==
  [][ /\ pc' # "idle" => Complete(implications')
      /\ \A e \in DOMAIN implications :
            e \in DOMAIN implications' /\ implications'[e] = implications[e]
      /\ (NotSolving /\ pc' = "ground") =>
            \A e \in DOMAIN implications' \ DOMAIN implications :
               /\ implications'[e] = TrueValue
               /\ \E var \in Range(variables) : \E value \in Range(values) :
                     e = Eq(var, value)
    ]_vars

\* C24 witness: solve() has returned for variables and values that share a
\* label; the table has a recorded implication and an inserted TRUE
CompletedAroundAnImplication ==
  /\ pc = "done"
  /\ Range(variables) \cap Range(values) # {}
  /\ Eq("x", "1") \in DOMAIN implications
  /\ implications[Eq("x", "1")] = Eq("y", "1")
  /\ Eq("y", "1") \in DOMAIN implications
  /\ implications[Eq("y", "1")] = TrueValue

\* C29: every key of the implication table is an Eq, never TRUE or FALSE,
\* also when a label is registered both as a variable and as a value.
EveryKeyIsAnEquality ==
  \A e \in DOMAIN implications : e.kind = "Eq"

\* The pivots of the ground truth simplified against the assignments
GroundPivots == extract_pivots(simplify(ground_truth, assignments, SimplifyPath))

\* C25: before the loop solve() builds the initial assignment (for every
\* variable the registered values whose implication is not FALSE), then
\* intersects the set of each pivot of the simplified ground truth that is a
\* registered variable with the pivot's set; other pivot keys change nothing
\* and no key is added.
GroundTruthNarrowsVariables ==
  [][ /\ (NotSolving /\ pc' = "ground") =>
            /\ DOMAIN assignments' = Range(variables)
            /\ \A var \in Range(variables) :
                  assignments'[var] =
                    { value \in Range(values) :
                        implications'[Eq(var, value)] # FalseValue }
      /\ (pc = "ground" /\ pc' = "while") =>
            /\ DOMAIN assignments' = Range(variables)
            /\ \A var \in Range(variables) :
                  assignments'[var] =
                    IF var \in DOMAIN GroundPivots
                      THEN assignments[var] \cap GroundPivots[var]
                      ELSE assignments[var]
    ]_vars

\* C25 witness: the ground truth has narrowed a variable, and one of its
\* pivots was no registered variable
NarrowedByGroundTruth ==
  /\ pc = "while" /\ passes = 0
  /\ \E var \in Range(variables) :
        /\ assignments[var] # InitialAssignments(implications)[var]
        /\ assignments[var] # {}
  /\ DOMAIN extract_pivots(simplify(ground_truth, InitialAssignments(implications),
                                     SimplifyPath)) \ Range(variables) # {}

\* C26: inside a pass a value whose implication simplifies to FALSE against
\* the current assignments is removed at once and the pass is marked changed;
\* the simplifications that follow in the pass (the other values of the
\* variable, its pivot step, the later variables) are made against the
\* assignments without that value.
RemovedAtOnce ==
  [][ /\ (pc = "for" /\ pending # {}) =>
            LET var   == variables[var_index]
                value == CHOOSE v \in pending : v \notin pending'
                gone  == simplify(implications[Eq(var, value)], assignments,
                                  SimplifyPath) = FalseValue
            IN  IF gone
                  THEN /\ assignments' = [assignments EXCEPT ![var] = @ \ {value}]
                       /\ something_changed'
                  ELSE /\ assignments' = assignments
                       /\ something_changed' = something_changed
      /\ (pc = "for" /\ pending = {}) =>
            LET pivots == extract_pivots(simplify(Or(SolverId, terms), assignments,
                                                  SimplifyPath))
            IN  \A var \in DOMAIN assignments :
                   assignments'[var] =
                     IF var \in DOMAIN pivots
                       THEN assignments[var] \cap pivots[var]
                       ELSE assignments[var]
      /\ pc = "for" =>
            \A var \in DOMAIN assignments : assignments'[var] \subseteq assignments[var]
    ]_vars

\* C26 witness: in the visit of the second variable a value is gone whose
\* implication was not FALSE against the assignments the pass began with
RemovedBecauseOfARemoval ==
  /\ pc = "for"
  /\ var_index = 2
  /\ something_changed
  /\ \E value \in pass_start[variables[2]] \ assignments[variables[2]] :
        /\ simplify(implications[Eq(variables[2], value)], pass_start,
                    SimplifyPath) # FalseValue
        /\ simplify(implications[Eq(variables[2], value)], assignments,
                    SimplifyPath) = FalseValue

\* C27: with disjoint variable and value labels, each registered once,
\* solve() returns the one assignment that every order of registering the
\* variables and every order of visiting a variable's values ends with.
OrderIsImmaterial ==
  (pc = "done" /\ Len(variables) = Cardinality(Range(variables))) =>
    \A vs \in Once(Range(variables)) :
       SolvedFrom(implications,
                  narrow_by(ground_truth, InitialAssignments(implications)),
                  vs) = {result[1]}

\* C28: a second solve() with no registration in between returns an
\* assignment equal to the first, and solve() leaves the variables, the
\* values, the ground truth and every entry of the implication table
\* unchanged; it only adds the TRUE entries of the completion.
SolveAgainGivesTheSame ==
  [][ /\ (pc = "while" /\ pc' = "done" /\ result # << >>) => result' = result
      /\ (pc' \notin {"idle"} /\ (pc \notin {"idle", "done"} \/ pc' = "ground")) =>
            /\ variables' = variables
            /\ values' = values
            /\ ground_truth' = ground_truth
            /\ \A e \in DOMAIN implications :
                  e \in DOMAIN implications' /\ implications'[e] = implications[e]
            /\ \A e \in DOMAIN implications' \ DOMAIN implications :
                  implications'[e] = TrueValue
    ]_vars

\* C28 witness: a second solve() is about to return; the first returned an
\* assignment that the implications and the ground truth had narrowed
SecondSolveAboutToReturn ==
  /\ pc = "while"
  /\ ~something_changed
  /\ result # << >>
  /\ result[1] = assignments
  /\ \E var \in Range(variables) :
        /\ result[1][var] # Range(values)
        /\ result[1][var] # {}
  /\ \E e \in DOMAIN implications : implications[e] \notin {TrueValue, FalseValue}

\* C30: for disjoint variable and value labels, simplifying what simplify
\* returned, against the same assignment, gives a term equal to it.
SimplifyIsIdempotent ==
  call.op = "simplify" =>
    TermEq(simplify(call.ret, call.args[2], NextId), call.ret)

=============================================================================
